---- MODULE Spec2Model ----
(***************************************************************************)
(* Model of the "explain" edge function                                    *)
(* (src/supabase/functions/explain/index.ts): the heuristic content        *)
(* generator, the model-backed generator callLLM, and the serve handler    *)
(* with its store operations on the tables snippets and quizzes.           *)
(*                                                                         *)
(* Source text is modelled as a sequence of words (the maximal runs of     *)
(* word characters of the code), so that a regular expression of the form  *)
(* /\b(w1|w2)\b/i matches iff some word, lower-cased, is one of w1, w2.    *)
(* A string the code only tests for being falsy ('' or undefined) is "";  *)
(* the title of the body, which is also sent to the store as it is, keeps  *)
(* the difference (Titles).                                                *)
(***************************************************************************)
EXTENDS Integers, Sequences, FiniteSets, TLC

(***************************************************************************)
(* Bounds of the model.                                                    *)
(***************************************************************************)
\* requests one handler instance serves in a behaviour
MaxRequests == 1

\* words of the longest code text given to the heuristic generator
MaxCodeLen == 3

(***************************************************************************)
(* Words and the three lexical signals (index.ts lines 31-33).             *)
(***************************************************************************)
Words == {"for", "WHILE", "if", "Else", "def", "format", "print"}

ToLowerCase(w) ==
    CASE w = "WHILE" -> "while"
      [] w = "Else"  -> "else"
      [] w = "Sample" -> "sample"
      [] OTHER       -> w

RegexTest(alternatives, code) ==
    \E i \in 1..Len(code) : ToLowerCase(code[i]) \in alternatives

hasLoopsOf(code) == RegexTest({"for", "while", "do"}, code)

hasConditionalsOf(code) == RegexTest({"if", "else", "switch", "case"}, code)

hasFunctionsOf(code) == RegexTest({"function", "def", "func"}, code)

(***************************************************************************)
(* Content bundles.  A value obtained from JSON.parse need not have the    *)
(* LLMResponse shape, so a bundle records which JavaScript value it is     *)
(* (null or an object) and which of the four properties it has; a          *)
(* property that is absent reads as the empty value of its type.           *)
(***************************************************************************)
BundleFields == {"explanation", "mermaid", "trace", "quizzes"}

NoTrace == [input |-> "", steps |-> <<>>]

Bundle(e, m, t, q) ==
    [js |-> "object", fields |-> BundleFields,
     explanation |-> e, mermaid |-> m, trace |-> t, quizzes |-> q]

Quiz(question, choices, answer, hint, difficulty) ==
    [question |-> question, choices |-> choices, answer |-> answer,
     hint |-> hint, difficulty |-> difficulty]

(***************************************************************************)
(* generateFallbackResponse (index.ts lines 30-126).                       *)
(***************************************************************************)
\* the explanation as it would be if level 15 had no functions clause
FallbackExplanationTechnicalOnly(language, readingLevel, hasLoops, hasConditionals, hasFunctions) ==
    IF readingLevel = "12"
    THEN <<"This ", language, " code is like following a recipe! It takes some information (ingredients) and follows step-by-step instructions to create a result. The computer reads each line and does what it says, just like you would follow cooking instructions.">>
         \o (IF hasLoops THEN <<" Some steps say 'repeat this part until something happens' - that's like stirring until the mixture is smooth.">> ELSE <<>>)
         \o (IF hasConditionals THEN <<" Other steps say 'if this, then do that' - like checking if the cake is done before taking it out.">> ELSE <<>>)
    ELSE IF readingLevel = "15"
    THEN <<"This ", language, " code demonstrates fundamental programming concepts. It processes input data through a series of logical operations to produce a desired output.">>
         \o (IF hasLoops THEN <<" It uses loops to repeat certain operations efficiently.">> ELSE <<>>)
         \o (IF hasConditionals THEN <<" Conditional statements help the program make decisions based on different scenarios.">> ELSE <<>>)
    ELSE <<"This ", language, " code implements a computational algorithm using standard programming constructs. The implementation follows best practices for readability and maintainability.">>
         \o (IF hasLoops THEN <<" Iterative constructs handle repetitive operations with appropriate termination conditions.">> ELSE <<>>)
         \o (IF hasConditionals THEN <<" Conditional logic enables branching behavior based on runtime evaluation.">> ELSE <<>>)
         \o (IF hasFunctions THEN <<" Modular function design promotes code reusability and separation of concerns.">> ELSE <<>>)

FallbackExplanation(language, readingLevel, hasLoops, hasConditionals, hasFunctions) ==
    IF readingLevel = "12"
    THEN <<"This ", language, " code is like following a recipe! It takes some information (ingredients) and follows step-by-step instructions to create a result. The computer reads each line and does what it says, just like you would follow cooking instructions.">>
         \o (IF hasLoops THEN <<" Some steps say 'repeat this part until something happens' - that's like stirring until the mixture is smooth.">> ELSE <<>>)
         \o (IF hasConditionals THEN <<" Other steps say 'if this, then do that' - like checking if the cake is done before taking it out.">> ELSE <<>>)
    ELSE IF readingLevel = "15"
    THEN <<"This ", language, " code demonstrates fundamental programming concepts. It processes input data through a series of logical operations to produce a desired output.">>
         \o (IF hasLoops THEN <<" It uses loops to repeat certain operations efficiently.">> ELSE <<>>)
         \o (IF hasConditionals THEN <<" Conditional statements help the program make decisions based on different scenarios.">> ELSE <<>>)
         \o (IF hasFunctions THEN <<" Functions help organize the code into reusable blocks.">> ELSE <<>>)
    ELSE <<"This ", language, " code implements a computational algorithm using standard programming constructs. The implementation follows best practices for readability and maintainability.">>
         \o (IF hasLoops THEN <<" Iterative constructs handle repetitive operations with appropriate termination conditions.">> ELSE <<>>)
         \o (IF hasConditionals THEN <<" Conditional logic enables branching behavior based on runtime evaluation.">> ELSE <<>>)
         \o (IF hasFunctions THEN <<" Modular function design promotes code reusability and separation of concerns.">> ELSE <<>>)

\* the diagram as it would be if the loop template were tried first
FallbackDiagramLoopsFirst(hasLoops, hasConditionals) ==
    IF hasLoops
    THEN "graph TD A[Start] --> B[Initialize Counter] B --> C[Check Loop Condition] C -->|True| D[Execute Loop Body] D --> E[Update Counter] E --> C C -->|False| F[End]"
    ELSE IF hasConditionals
    THEN "graph TD A[Start] --> B[Check Condition] B -->|True| C[Execute Branch A] B -->|False| D[Execute Branch B] C --> E[End] D --> E"
    ELSE "graph TD A[Start] --> B[Process Input] B --> C[Apply Logic] C --> D[Generate Output] D --> E[End]"

\* the four diagram templates (line breaks and indentation written as one space)
FallbackDiagram(hasLoops, hasConditionals) ==
    IF hasLoops /\ hasConditionals
    THEN "graph TD A[Start] --> B[Initialize Variables] B --> C[Loop Condition] C -->|True| D{Check Condition} D -->|Met| E[Execute Action A] D -->|Not Met| F[Execute Action B] E --> G[Update Variables] F --> G G --> C C -->|False| H[End]"
    ELSE IF hasLoops
    THEN "graph TD A[Start] --> B[Initialize Counter] B --> C[Check Loop Condition] C -->|True| D[Execute Loop Body] D --> E[Update Counter] E --> C C -->|False| F[End]"
    ELSE IF hasConditionals
    THEN "graph TD A[Start] --> B[Check Condition] B -->|True| C[Execute Branch A] B -->|False| D[Execute Branch B] C --> E[End] D --> E"
    ELSE "graph TD A[Start] --> B[Process Input] B --> C[Apply Logic] C --> D[Generate Output] D --> E[End]"

FallbackTrace ==
    [input |-> "sample_input",
     steps |-> << [line |-> 1, vars |-> {<<"input", "sample_input">>}],
                  [line |-> 2, vars |-> {<<"input", "sample_input">>, <<"processed", "true">>}] >>]

\* the quizzes as they would be if the second one looked at conditionals first
FallbackQuizzesConditionalsFirst(hasLoops, hasConditionals) ==
    << Quiz("What is the main purpose of this code?",
            <<"Process data according to specific logic", "Create a user interface", "Manage database connections", "Handle file operations">>,
            "Process data according to specific logic",
            "Look at the overall structure and operations performed",
            "easy"),
       Quiz("Which programming concept is most evident in this code?",
            IF hasConditionals THEN <<"Conditional logic", "File handling", "Memory management", "Thread synchronization">>
            ELSE IF hasLoops THEN <<"Loops for repetition", "Database operations", "Network requests", "Graphics rendering">>
            ELSE <<"Sequential processing", "Parallel computing", "Distributed systems", "Machine learning">>,
            IF hasConditionals THEN "Conditional logic" ELSE IF hasLoops THEN "Loops for repetition" ELSE "Sequential processing",
            "Think about the fundamental programming constructs used",
            "medium"),
       Quiz("What should you consider before running this code?",
            <<"Input requirements and expected format", "Internet connection speed", "Screen resolution", "Audio settings">>,
            "Input requirements and expected format",
            "Consider what the code needs to work properly",
            "easy") >>

FallbackQuizzes(hasLoops, hasConditionals) ==
    << Quiz("What is the main purpose of this code?",
            <<"Process data according to specific logic", "Create a user interface", "Manage database connections", "Handle file operations">>,
            "Process data according to specific logic",
            "Look at the overall structure and operations performed",
            "easy"),
       Quiz("Which programming concept is most evident in this code?",
            IF hasLoops THEN <<"Loops for repetition", "Database operations", "Network requests", "Graphics rendering">>
            ELSE IF hasConditionals THEN <<"Conditional logic", "File handling", "Memory management", "Thread synchronization">>
            ELSE <<"Sequential processing", "Parallel computing", "Distributed systems", "Machine learning">>,
            IF hasLoops THEN "Loops for repetition" ELSE IF hasConditionals THEN "Conditional logic" ELSE "Sequential processing",
            "Think about the fundamental programming constructs used",
            "medium"),
       Quiz("What should you consider before running this code?",
            <<"Input requirements and expected format", "Internet connection speed", "Screen resolution", "Audio settings">>,
            "Input requirements and expected format",
            "Consider what the code needs to work properly",
            "easy") >>

generateFallbackResponse(code, language, readingLevel) ==
    LET hasLoops == hasLoopsOf(code)
        hasConditionals == hasConditionalsOf(code)
        hasFunctions == hasFunctionsOf(code)
    IN  Bundle(FallbackExplanation(language, readingLevel, hasLoops, hasConditionals, hasFunctions),
               FallbackDiagram(hasLoops, hasConditionals),
               FallbackTrace,
               FallbackQuizzes(hasLoops, hasConditionals))

(***************************************************************************)
(* The mock bundle of callLLM (index.ts lines 132-168).                    *)
(***************************************************************************)
MockBundle(language) ==
    Bundle(<<"This ", language, " code demonstrates key programming concepts. It uses variables to store data and control structures to manage program flow. The logic is structured to handle the main use case efficiently.">>,
           "graph TD A[Start] --> B[Process Input] B --> C[Apply Logic] C --> D[Generate Output] D --> E[End]",
           [input |-> "sample input",
            steps |-> << [line |-> 1, vars |-> {<<"x", "1">>, <<"y", "2">>}],
                         [line |-> 2, vars |-> {<<"x", "1">>, <<"y", "2">>, <<"result", "3">>}] >>],
           << Quiz("What is the main purpose of this code?",
                   <<"Process data", "Create UI", "Manage files", "Handle network">>,
                   "Process data", "Look at the main operations", "easy"),
              Quiz("Which concept is most important here?",
                   <<"Variables", "Networks", "Graphics", "Audio">>,
                   "Variables", "Think about data storage", "medium"),
              Quiz("What would this code output with input 'test'?",
                   <<"test", "TEST", "error", "null">>,
                   "test", "Trace through the logic", "hard") >>)

(***************************************************************************)
(* The external generation service as callLLM sees it (lines 180-205):     *)
(* fetch raises or returns a response; the response has a success status   *)
(* or not; its body has data.choices[0].message or not; the message        *)
(* content is a text that JSON.parse rejects or the text of a JSON value.  *)
(***************************************************************************)
NullValue ==
    [js |-> "null", fields |-> {},
     explanation |-> <<>>, mermaid |-> "", trace |-> NoTrace, quizzes |-> <<>>]

EmptyObject ==
    [js |-> "object", fields |-> {},
     explanation |-> <<>>, mermaid |-> "", trace |-> NoTrace, quizzes |-> <<>>]

\* a well-shaped bundle written by the model
ModelBundle ==
    Bundle(<<"The model's explanation.">>,
           "graph TD A[Start] --> B[Model]",
           [input |-> "sample", steps |-> << [line |-> 1, vars |-> {<<"i", "0">>}] >>],
           << Quiz("M1?", <<"a", "b">>, "a", "h1", "easy"),
              Quiz("M2?", <<"c", "d">>, "d", "h2", "medium"),
              Quiz("M3?", <<"e", "f">>, "e", "h3", "hard") >>)

Content(valid, value) == [valid |-> valid, value |-> value]

InvalidJsonContent == Content(FALSE, NullValue)

Contents ==
    {InvalidJsonContent, Content(TRUE, NullValue), Content(TRUE, EmptyObject),
     Content(TRUE, ModelBundle)}

FetchResult(raised, ok, hasMessage, content) ==
    [raised |-> raised, ok |-> ok, hasMessage |-> hasMessage, content |-> content]

NetworkException == FetchResult(TRUE, FALSE, FALSE, InvalidJsonContent)

HttpError == FetchResult(FALSE, FALSE, FALSE, InvalidJsonContent)

MalformedBody == FetchResult(FALSE, TRUE, FALSE, InvalidJsonContent)

FetchResults ==
    {NetworkException, HttpError, MalformedBody}
    \cup {FetchResult(FALSE, TRUE, TRUE, c) : c \in Contents}

\* fetch raised, !response.ok, data.choices[0].message unreadable, JSON.parse raised
ModelCallThrows(f) ==
    f.raised \/ ~f.ok \/ ~f.hasMessage \/ ~f.content.valid

(***************************************************************************)
(* callLLM (index.ts lines 129-212): the bundle it resolves to and the     *)
(* calls it made on the way, given the configured key and what the fetch   *)
(* would produce.                                                          *)
(***************************************************************************)
\* callLLM as it would be if the missing key were handled like a failed call
callLLMFallingBackWithoutKey(code, language, readingLevel, openaiKey, f) ==
    IF openaiKey = "" \/ ModelCallThrows(f)
    THEN [value |-> generateFallbackResponse(code, language, readingLevel),
          calls |-> <<"generateFallbackResponse">>]
    ELSE [value |-> f.content.value, calls |-> <<"fetch">>]

\* callLLM as it would be if a failed call were tried a second time
callLLMRetrying(code, language, readingLevel, openaiKey, f) ==
    IF openaiKey = ""
    THEN [value |-> MockBundle(language), calls |-> <<>>]
    ELSE IF ModelCallThrows(f)
    THEN [value |-> generateFallbackResponse(code, language, readingLevel),
          calls |-> <<"fetch", "fetch", "generateFallbackResponse">>]
    ELSE [value |-> f.content.value, calls |-> <<"fetch">>]

callLLM(code, language, readingLevel, openaiKey, f) ==
    IF openaiKey = ""
    THEN [value |-> MockBundle(language), calls |-> <<>>]
    ELSE IF ModelCallThrows(f)
    THEN [value |-> generateFallbackResponse(code, language, readingLevel),
          calls |-> <<"fetch", "generateFallbackResponse">>]
    ELSE [value |-> f.content.value, calls |-> <<"fetch">>]

(***************************************************************************)
(* The store: table snippets, a function from the identifiers of the rows  *)
(* that exist to the rows, and table quizzes, a set of rows.  Each         *)
(* operator is one statement the handler sends, applied atomically.        *)
(***************************************************************************)
SnippetRow(id, owner, title, language, code, status, explanation, mermaid, trace) ==
    [id |-> id, owner |-> owner, title |-> title, language |-> language,
     code |-> code, status |-> status, explanation |-> explanation,
     mermaid_diagram |-> mermaid, trace_table |-> trace]

QuizRow(id, snippetId, quiz) ==
    [id |-> id, snippet_id |-> snippetId, question |-> quiz.question,
     choices |-> quiz.choices, answer |-> quiz.answer, hint |-> quiz.hint,
     difficulty |-> quiz.difficulty]

\* update({title, language, code, status: 'pending'}).eq('id', id).eq('owner', owner)
\* (lines 263-272); title is sent as it is in the body, also when it is '',
\* and is not sent when the body has none (undefined is left out of the JSON)
UpdatePending(rows, id, owner, title, language, code) ==
    [i \in DOMAIN rows |->
        IF i = id /\ rows[i].owner = owner
        THEN [rows[i] EXCEPT !.title = IF title = <<>> THEN @ ELSE title[1],
                             !.language = language,
                             !.code = code,
                             !.status = "pending"]
        ELSE rows[i]]

\* insert({owner, title: title || 'Untitled', language, code, status: 'pending'})
\* (lines 283-293)
InsertSnippet(rows, id, owner, title, language, code) ==
    [i \in DOMAIN rows \cup {id} |->
        IF i = id
        THEN SnippetRow(id, owner,
                        IF title = <<>> \/ title[1] = "" THEN "Untitled" ELSE title[1],
                        language, code, "pending", <<>>, "", NoTrace)
        ELSE rows[i]]

\* the rows update(...).eq('id', id) addresses (lines 311-319)
ResultWriteTargets(rows, id) == {i \in DOMAIN rows : i = id}

\* update({explanation, mermaid_diagram, trace_table, status: 'ready'}).eq('id', id)
\* (lines 311-319); a property the bundle lacks is undefined and is not sent
UpdateResult(rows, id, b) ==
    [i \in DOMAIN rows |->
        IF i \in ResultWriteTargets(rows, id)
        THEN [rows[i] EXCEPT
                !.explanation = IF "explanation" \in b.fields THEN b.explanation ELSE @,
                !.mermaid_diagram = IF "mermaid" \in b.fields THEN b.mermaid ELSE @,
                !.trace_table = IF "trace" \in b.fields THEN b.trace ELSE @,
                !.status = "ready"]
        ELSE rows[i]]

\* delete().eq('snippet_id', id) (lines 352-355)
DeleteQuizzes(qs, id) == {q \in qs : q.snippet_id # id}

\* the rows insert(quizInserts).select() returns (lines 358-370): the store
\* assigns the identifiers first, first + 1, ...
InsertedQuizzes(id, bundleQuizzes, first) ==
    [k \in 1..Len(bundleQuizzes) |->
        QuizRow(<<"db", first + k - 1>>, id, bundleQuizzes[k])]

Range(f) == {f[k] : k \in DOMAIN f}

(***************************************************************************)
(* Responses.  kind is "empty" (no body), "error" ({error}) or "content"   *)
(* ({snippet, quizzes}).                                                   *)
(***************************************************************************)
NoSnippet == [id |-> ""]

NoResponse ==
    [status |-> 0, kind |-> "none", error |-> "", snippet |-> NoSnippet, quizzes |-> <<>>]

PreflightResponse ==
    [status |-> 200, kind |-> "empty", error |-> "", snippet |-> NoSnippet, quizzes |-> <<>>]

ErrorResponse(status, message) ==
    [status |-> status, kind |-> "error", error |-> message,
     snippet |-> NoSnippet, quizzes |-> <<>>]

ContentResponse(snippet, qs) ==
    [status |-> 200, kind |-> "content", error |-> "", snippet |-> snippet, quizzes |-> qs]

\* the snippet object written from the bundle (lines 328-334, 418-424, 451-457)
SyntheticSnippet(id, b) ==
    [id |-> id, explanation |-> b.explanation, mermaid_diagram |-> b.mermaid,
     trace_table |-> b.trace, status |-> "ready"]

\* quizzes.map((quiz, index) => ({id: `<prefix>_${index}`, snippet_id, ...quiz}))
SyntheticQuizzes(prefix, id, bundleQuizzes) ==
    [k \in 1..Len(bundleQuizzes) |-> QuizRow(<<prefix, k - 1>>, id, bundleQuizzes[k])]

\* reading a property of llmResponse raises a TypeError
PropertyReadThrows(b) == b.js = "null"

\* llmResponse.quizzes.map(...) raises a TypeError
QuizzesMapThrows(b) == PropertyReadThrows(b) \/ "quizzes" \notin b.fields

(***************************************************************************)
(* The top-level catch (lines 439-470).  An error carries a requestBody    *)
(* or not; the errors raised by the store client, the auth client, the     *)
(* body parser and the property reads carry none.                          *)
(***************************************************************************)
NoRequestBody == [present |-> FALSE, code |-> <<>>, language |-> "", reading_level |-> ""]

RaisedError == [requestBody |-> NoRequestBody]

\* x || dflt on strings
OrElse(x, dflt) == IF x = "" THEN dflt ELSE x

\* x || dflt on code texts
CodeOrElse(x, dflt) == IF x = <<>> THEN dflt ELSE x

FinalFallback(error) ==
    LET body == error.requestBody
        fallbackResponse ==
            generateFallbackResponse(
                IF body.present THEN CodeOrElse(body.code, <<"Sample", "code">>) ELSE <<"Sample", "code">>,
                IF body.present THEN OrElse(body.language, "javascript") ELSE "javascript",
                IF body.present THEN OrElse(body.reading_level, "cs1") ELSE "cs1")
    IN  ContentResponse(SyntheticSnippet("fallback", fallbackResponse),
                        SyntheticQuizzes("fallback", "fallback", fallbackResponse.quizzes))

\* the bundle response as it would be if the store failure were surfaced
BundleResponseSurfacingFailure(id, b) == ErrorResponse(500, "Failed to update snippet")

\* the bundle response as it would be if the raise of the recovery handler
\* escaped the handler without a response body
BundleResponseEscaping(id, b) ==
    IF QuizzesMapThrows(b)
    THEN NoResponse
    ELSE ContentResponse(SyntheticSnippet(id, b), SyntheticQuizzes("temp", id, b.quizzes))

\* the response of lines 326-346 and of the dbError catch (lines 413-437):
\* evaluating it raises when the bundle has no quizzes to map, the raise
\* leaves the inner try (or its catch) and reaches the top-level catch
BundleResponse(id, b) ==
    IF QuizzesMapThrows(b)
    THEN FinalFallback(RaisedError)
    ELSE ContentResponse(SyntheticSnippet(id, b), SyntheticQuizzes("temp", id, b.quizzes))

(***************************************************************************)
(* Requests and the collaborators' answers.                                *)
(***************************************************************************)
\* bearer tokens: two the auth collaborator resolves to a user, one it rejects
AuthHeaders == {"", "Bearer token-u1", "Bearer token-u2", "Bearer token-bad"}

\* authHeader.replace('Bearer ', '') and the user getUser resolves it to ("": none)
UserOfHeader(authHeader) ==
    CASE authHeader = "Bearer token-u1" -> "u1"
      [] authHeader = "Bearer token-u2" -> "u2"
      [] OTHER -> ""

\* identifiers a request may carry: u1's snippet, u2's snippet, no row
RequestSnippetIds == {"", "s1", "s2", "s9"}

\* identifiers the store assigns to new snippets, in order
NewSnippetIds == <<"n1", "n2", "n3", "n4", "n5", "n6">>

Codes == {<<>>, <<"print">>, <<"for", "print">>}

Languages == {"", "python"}

\* title of the body: the body has none (<<>>), or it is the string given,
\* which may be ''
Titles == {<<>>, <<"">>, <<"Demo">>}

\* reading_level of the body; the handler replaces a missing one by 'cs1'
RequestLevels == {"", "12"}

Body(parsable, snippet_id, title, language, code, reading_level) ==
    [parsable |-> parsable, snippet_id |-> snippet_id, title |-> title,
     language |-> language, code |-> code, reading_level |-> reading_level]

UnparsableBody == Body(FALSE, "", <<>>, "", <<>>, "")

Bodies ==
    {UnparsableBody}
    \cup {Body(TRUE, i, t, l, c, r) :
            i \in RequestSnippetIds, t \in Titles, l \in Languages, c \in Codes,
            r \in RequestLevels}

Request(method, authHeader, body) ==
    [method |-> method, authHeader |-> authHeader, body |-> body]

OptionsRequest == Request("OPTIONS", "", UnparsableBody)

Requests ==
    {OptionsRequest} \cup {Request("POST", h, b) : h \in AuthHeaders, b \in Bodies}

\* how an awaited store call ends: a result without error, a result with
\* error (nothing applied), or an exception (nothing applied)
StoreOutcomes == {"ok", "error", "raise"}

\* insert(...).select().single() may also end without error and without row
\* (line 295: insertError || !snippetData)
InsertOutcomes == StoreOutcomes \cup {"empty"}

\* how the fetch of callLLM ended, for the log
FetchMode(f) ==
    IF f.raised THEN "network exception"
    ELSE IF ~f.ok THEN "http error"
    ELSE IF ~f.hasMessage THEN "malformed body"
    ELSE IF ~f.content.valid THEN "invalid json"
    ELSE IF f.content.value.js # "object" \/ f.content.value.fields # BundleFields
    THEN "json of another shape"
    ELSE "json bundle"

(***************************************************************************)
(* State.                                                                  *)
(***************************************************************************)
VARIABLES
    openaiKey,      \* Deno.env.get('OPENAI_API_KEY'), "" when not set
    snippets,       \* table snippets
    quizzes,        \* table quizzes
    nextSnippet,    \* index in NewSnippetIds of the next identifier
    nextQuizId,     \* next identifier the store assigns to a quiz
    pc,             \* per handler instance: the await it is suspended at
    served,         \* requests the instance has received
    req,            \* the request
    userId,         \* line 246
    snippetId,      \* lines 258, 303
    llmResponse,    \* line 307
    updatedSnippet, \* line 311
    resp,           \* the Response returned
    ops,            \* the calls completed for the request: <<call, how the
                    \* collaborator ended it, what the handler got>>
    before          \* the tables as they were when the request arrived

vars ==
    <<openaiKey, snippets, quizzes, nextSnippet, nextQuizId, pc, served,
      req, userId, snippetId, llmResponse, updatedSnippet, resp, ops, before>>

store == <<snippets, quizzes, nextSnippet, nextQuizId>>

\* the results an earlier, unconfigured run left on a snippet
ReadyRow(id, owner, title) ==
    LET b == MockBundle("python")
    IN  SnippetRow(id, owner, title, "python", <<"print">>, "ready",
                   b.explanation, b.mermaid, b.trace)

InitSnippets ==
    [i \in {"s1", "s2"} |->
        IF i = "s1" THEN ReadyRow("s1", "u1", "Mine") ELSE ReadyRow("s2", "u2", "Theirs")]

InitQuizzes ==
    Range(InsertedQuizzes("s1", MockBundle("python").quizzes, 1))
    \cup Range(InsertedQuizzes("s2", MockBundle("python").quizzes, 4))

InitFor(instances) ==
    /\ openaiKey \in {"", "sk-key"}
    /\ snippets = InitSnippets
    /\ quizzes = InitQuizzes
    /\ nextSnippet = 1
    /\ nextQuizId = 7
    /\ pc = [p \in instances |-> "idle"]
    /\ served = [p \in instances |-> 0]
    /\ req = [p \in instances |-> OptionsRequest]
    /\ userId = [p \in instances |-> ""]
    /\ snippetId = [p \in instances |-> ""]
    /\ llmResponse = [p \in instances |-> NullValue]
    /\ updatedSnippet = [p \in instances |-> NoSnippet]
    /\ resp = [p \in instances |-> NoResponse]
    /\ ops = [p \in instances |-> <<>>]
    /\ before = [p \in instances |-> [snippets |-> InitSnippets, quizzes |-> InitQuizzes]]

Init == InitFor({1})

Instances == DOMAIN pc

\* return new Response(...): the handler instance is finished
Return(p, r) ==
    /\ resp' = [resp EXCEPT ![p] = r]
    /\ pc' = [pc EXCEPT ![p] = "done"]

Await(p, next) ==
    /\ pc' = [pc EXCEPT ![p] = next]
    /\ UNCHANGED resp

Log(p, call, ended, got) == ops' = [ops EXCEPT ![p] = Append(@, <<call, ended, got>>)]

(***************************************************************************)
(* serve handler, lines 214-237: a request arrives; preflight and the      *)
(* missing header are answered, otherwise getUser is awaited.  The store   *)
(* client is built from SUPABASE_URL and SUPABASE_SERVICE_ROLE_KEY, which  *)
(* lines 222-223 assert to be set (!): createClient does not raise.        *)
(***************************************************************************)
Receive(p, r) ==
    /\ req' = [req EXCEPT ![p] = r]
    /\ IF r.method = "OPTIONS"
       THEN Return(p, PreflightResponse)
       ELSE IF r.authHeader = ""
       THEN Return(p, ErrorResponse(401, "Missing authorization header"))
       ELSE /\ pc' = [pc EXCEPT ![p] = "auth"]
            /\ resp' = [resp EXCEPT ![p] = NoResponse]
    /\ served' = [served EXCEPT ![p] = @ + 1]
    /\ userId' = [userId EXCEPT ![p] = ""]
    /\ snippetId' = [snippetId EXCEPT ![p] = ""]
    /\ llmResponse' = [llmResponse EXCEPT ![p] = NullValue]
    /\ updatedSnippet' = [updatedSnippet EXCEPT ![p] = NoSnippet]
    /\ ops' = [ops EXCEPT ![p] = <<>>]
    /\ before' = [before EXCEPT ![p] = [snippets |-> snippets, quizzes |-> quizzes]]
    /\ UNCHANGED <<openaiKey, store>>

Start(p) ==
    /\ pc[p] \in {"idle", "done"}
    /\ served[p] < MaxRequests
    /\ \E r \in Requests : Receive(p, r)

(***************************************************************************)
(* lines 237-249: getUser ends; an unresolved caller is answered 401,      *)
(* otherwise the body is awaited (req.json()).                             *)
(***************************************************************************)
AuthenticateWith(p, raised) ==
    LET user == UserOfHeader(req[p].authHeader)
        ended == IF raised THEN "raise" ELSE IF user = "" THEN "error" ELSE "ok"
    IN  /\ pc[p] = "auth"
        /\ Log(p, "auth.getUser", ended, ended)
        /\ IF raised
           THEN /\ Return(p, FinalFallback(RaisedError))
                /\ UNCHANGED userId
           ELSE IF user = ""
           THEN /\ Return(p, ErrorResponse(401, "Invalid token"))
                /\ UNCHANGED userId
           ELSE /\ userId' = [userId EXCEPT ![p] = user]
                /\ Await(p, "body")
        /\ UNCHANGED <<openaiKey, store, served, req, snippetId, llmResponse,
                       updatedSnippet, before>>

Authenticate(p) == \E raised \in BOOLEAN : AuthenticateWith(p, raised)

(***************************************************************************)
(* lines 249-258: req.json() ends; a body that is not JSON raises into the *)
(* top-level catch, a body without code or language is answered 400,      *)
(* otherwise the pending write is sent.                                    *)
(***************************************************************************)
\* the validation as it would be if it checked code alone
MissingCodeOnly(body) == body.code = <<>>

\* line 251: !code || !language
MissingRequiredFields(body) == body.code = <<>> \/ body.language = ""

ParseBody(p) ==
    LET body == req[p].body
    IN  /\ pc[p] = "body"
        /\ IF ~body.parsable
           THEN /\ Return(p, FinalFallback(RaisedError))
                /\ UNCHANGED snippetId
           ELSE IF MissingRequiredFields(body)
           THEN /\ Return(p, ErrorResponse(400, "Missing required fields: code, language"))
                /\ UNCHANGED snippetId
           ELSE /\ snippetId' = [snippetId EXCEPT ![p] = body.snippet_id]
                /\ Await(p, "pending")
        /\ UNCHANGED <<openaiKey, store, served, req, userId, llmResponse, updatedSnippet,
                       before, ops>>

(***************************************************************************)
(* lines 261-307: the pending write ends (update of the supplied snippet,  *)
(* scoped to the caller, or insert of a new one); on an error the request  *)
(* is answered 500, otherwise callLLM is awaited.                          *)
(***************************************************************************)
\* the answer to a failed pending write as it would be if it were the fallback
PendingErrorResponseAsContent(message) == FinalFallback(RaisedError)

\* lines 274-280 and 295-301
PendingErrorResponse(message) == ErrorResponse(500, message)

PendingWriteWith(p, outcome) ==
    LET body == req[p].body
        newId == NewSnippetIds[nextSnippet]
    IN  /\ pc[p] = "pending"
        /\ IF snippetId[p] # ""
           THEN /\ Log(p, "snippets.update pending", outcome, outcome)
                /\ snippets' = IF outcome = "ok"
                               THEN UpdatePending(snippets, snippetId[p], userId[p],
                                                  body.title, body.language, body.code)
                               ELSE snippets
                /\ CASE outcome = "ok" -> Await(p, "llm")
                     [] outcome = "error" -> Return(p, PendingErrorResponse("Failed to update snippet"))
                     [] outcome = "raise" -> Return(p, FinalFallback(RaisedError))
                /\ UNCHANGED <<snippetId, nextSnippet>>
           ELSE /\ Log(p, "snippets.insert pending", outcome, outcome)
                /\ IF outcome = "ok"
                   THEN /\ snippets' = InsertSnippet(snippets, newId, userId[p],
                                                     body.title, body.language, body.code)
                        /\ nextSnippet' = nextSnippet + 1
                        /\ snippetId' = [snippetId EXCEPT ![p] = newId]
                        /\ Await(p, "llm")
                   ELSE /\ Return(p, IF outcome \in {"error", "empty"}
                                     THEN PendingErrorResponse("Failed to create snippet")
                                     ELSE FinalFallback(RaisedError))
                        /\ UNCHANGED <<snippets, nextSnippet, snippetId>>
        /\ UNCHANGED <<openaiKey, quizzes, nextQuizId, served, req, userId, llmResponse,
                       updatedSnippet, before>>

PendingOutcomes(p) == IF snippetId[p] = "" THEN InsertOutcomes ELSE StoreOutcomes

PendingWrite(p) == \E outcome \in PendingOutcomes(p) : PendingWriteWith(p, outcome)

(***************************************************************************)
(* line 307 and lines 309-321: callLLM ends and the result write is sent.  *)
(* Building its payload reads llmResponse.explanation; when that raises,   *)
(* the dbError catch reads it again and raises into the top-level catch.   *)
(***************************************************************************)
\* callLLM returns to the handler (line 307), which sends the result write.
\* The fetch is logged here, with how the exchange with the service ended.
CallLLMReturns(p, f) ==
    LET body == req[p].body
        r == callLLM(body.code, body.language, OrElse(body.reading_level, "cs1"),
                     openaiKey, f)
        ended(call) == IF call = "fetch" THEN FetchMode(f) ELSE "ok"
    IN  /\ llmResponse' = [llmResponse EXCEPT ![p] = r.value]
        /\ ops' = [ops EXCEPT ![p] =
                     @ \o [k \in 1..Len(r.calls) |->
                             <<r.calls[k], ended(r.calls[k]), ended(r.calls[k])>>]]
        /\ IF PropertyReadThrows(r.value)
           THEN Return(p, FinalFallback(RaisedError))
           ELSE Await(p, "result")
        /\ UNCHANGED <<openaiKey, store, served, req, userId, snippetId, updatedSnippet, before>>

\* lines 131-200: without a key callLLM returns the mock bundle; with a key
\* the fetch ends: when it raised or the status is not a success one,
\* callLLM returns the heuristic bundle, otherwise response.json() is awaited
GenerateWith(p, f) ==
    /\ pc[p] = "llm"
    /\ IF openaiKey # "" /\ ~f.raised /\ f.ok
       THEN /\ Await(p, "json")
            /\ UNCHANGED <<openaiKey, store, served, req, userId, snippetId, llmResponse,
                           updatedSnippet, before, ops>>
       ELSE CallLLMReturns(p, f)

Generate(p) == \E f \in FetchResults : GenerateWith(p, f)

\* lines 202-211: response.json() ends, the content is read and parsed, and
\* callLLM returns what JSON.parse gave or, when one of these raised, the
\* heuristic bundle
ReadBodyWith(p, f) ==
    /\ pc[p] = "json"
    /\ ~f.raised /\ f.ok
    /\ CallLLMReturns(p, f)

ReadBody(p) == \E f \in FetchResults : ReadBodyWith(p, f)

(***************************************************************************)
(* lines 311-356: the result write ends.  .single() reports an error when  *)
(* the update addressed no row.  On an error or an exception the response  *)
(* is written from the bundle; otherwise the quiz delete is sent.          *)
(***************************************************************************)
\* the end of the result write as it would be if a failure did not stop the
\* quiz replacement
ResultWriteWithQuizzesAnyway(p, outcome) ==
    LET targets == ResultWriteTargets(snippets, snippetId[p])
        got == IF outcome = "ok" /\ targets = {} THEN "error" ELSE outcome
    IN  /\ pc[p] = "result"
        /\ Log(p, "snippets.update result", outcome, got)
        /\ IF got = "ok"
           THEN /\ snippets' = UpdateResult(snippets, snippetId[p], llmResponse[p])
                /\ updatedSnippet' = [updatedSnippet EXCEPT ![p] = snippets'[snippetId[p]]]
           ELSE UNCHANGED <<snippets, updatedSnippet>>
        /\ Await(p, "qdelete")
        /\ UNCHANGED <<openaiKey, quizzes, nextSnippet, nextQuizId, served, req, userId,
                       snippetId, llmResponse, before>>

ResultWriteWith(p, outcome) ==
    LET targets == ResultWriteTargets(snippets, snippetId[p])
        got == IF outcome = "ok" /\ targets = {} THEN "error" ELSE outcome
    IN  /\ pc[p] = "result"
        /\ Log(p, "snippets.update result", outcome, got)
        /\ CASE got = "ok" ->
                  /\ snippets' = UpdateResult(snippets, snippetId[p], llmResponse[p])
                  /\ updatedSnippet' = [updatedSnippet EXCEPT ![p] = snippets'[snippetId[p]]]
                  /\ Await(p, "qdelete")
             [] got = "error" ->
                  /\ Return(p, BundleResponse(snippetId[p], llmResponse[p]))
                  /\ UNCHANGED <<snippets, updatedSnippet>>
             [] got = "raise" ->
                  /\ Return(p, BundleResponse(OrElse(snippetId[p], "temp"), llmResponse[p]))
                  /\ UNCHANGED <<snippets, updatedSnippet>>
        /\ UNCHANGED <<openaiKey, quizzes, nextSnippet, nextQuizId, served, req, userId,
                       snippetId, llmResponse, before>>

ResultWrite(p) == \E outcome \in StoreOutcomes : ResultWriteWith(p, outcome)

(***************************************************************************)
(* lines 350-365 and 401-411: the quiz delete ends; its result is not      *)
(* read.  An exception, of the delete or of quizzes.map, goes to the quiz  *)
(* catch; otherwise the quiz insert is sent.                               *)
(***************************************************************************)
\* lines 401-411
QuizCatchResponse(updated) == ContentResponse(updated, <<>>)

QuizDeleteWith(p, outcome) ==
    /\ pc[p] = "qdelete"
    /\ Log(p, "quizzes.delete", outcome, IF outcome = "raise" THEN "raise" ELSE "unread")
    /\ quizzes' = IF outcome = "ok" THEN DeleteQuizzes(quizzes, snippetId[p]) ELSE quizzes
    /\ IF outcome = "raise" \/ QuizzesMapThrows(llmResponse[p])
       THEN Return(p, QuizCatchResponse(updatedSnippet[p]))
       ELSE Await(p, "qinsert")
    /\ UNCHANGED <<openaiKey, snippets, nextSnippet, nextQuizId, served, req, userId,
                   snippetId, llmResponse, updatedSnippet, before>>

QuizDelete(p) == \E outcome \in StoreOutcomes : QuizDeleteWith(p, outcome)

(***************************************************************************)
(* lines 367-411: the quiz insert ends.                                    *)
(***************************************************************************)
\* lines 372-390
QuizErrorResponse(updated, id, b) ==
    ContentResponse(updated, SyntheticQuizzes("temp", id, b.quizzes))

\* the success response as it would be if it numbered the quizzes itself
SuccessResponseWithTempIds(updated, quizData) ==
    ContentResponse(updated,
                    [k \in 1..Len(quizData) |-> [quizData[k] EXCEPT !.id = <<"temp", k - 1>>]])

\* lines 392-399
SuccessResponse(updated, quizData) == ContentResponse(updated, quizData)

QuizInsertWith(p, outcome) ==
    LET quizData == InsertedQuizzes(snippetId[p], llmResponse[p].quizzes, nextQuizId)
    IN  /\ pc[p] = "qinsert"
        /\ Log(p, "quizzes.insert", outcome, outcome)
        /\ CASE outcome = "ok" ->
                  /\ quizzes' = quizzes \cup Range(quizData)
                  /\ nextQuizId' = nextQuizId + Len(quizData)
                  /\ Return(p, SuccessResponse(updatedSnippet[p], quizData))
             [] outcome = "error" ->
                  /\ Return(p, QuizErrorResponse(updatedSnippet[p], snippetId[p], llmResponse[p]))
                  /\ UNCHANGED <<quizzes, nextQuizId>>
             [] outcome = "raise" ->
                  /\ Return(p, QuizCatchResponse(updatedSnippet[p]))
                  /\ UNCHANGED <<quizzes, nextQuizId>>
        /\ UNCHANGED <<openaiKey, snippets, nextSnippet, served, req, userId, snippetId,
                       llmResponse, updatedSnippet, before>>

QuizInsert(p) == \E outcome \in StoreOutcomes : QuizInsertWith(p, outcome)

Next ==
    \/ \E p \in Instances : Start(p)
    \/ \E p \in Instances : Authenticate(p)
    \/ \E p \in Instances : ParseBody(p)
    \/ \E p \in Instances : PendingWrite(p)
    \/ \E p \in Instances : Generate(p)
    \/ \E p \in Instances : ReadBody(p)
    \/ \E p \in Instances : ResultWrite(p)
    \/ \E p \in Instances : QuizDelete(p)
    \/ \E p \in Instances : QuizInsert(p)

Spec == Init /\ [][Next]_vars

\* every awaited call eventually returns or raises, and the runtime then
\* resumes the handler
SpecLive == Init /\ [][Next]_vars /\ WF_vars(Next)

(***************************************************************************)
(* The heuristic generator on its own: a configured handler instance is    *)
(* suspended at the await of callLLM (line 307) for a request of caller u1 *)
(* on the snippet s1, whose code, language and reading level are drawn     *)
(* from wider sets; the fetch of callLLM then ends in one of the ways that *)
(* make callLLM run generateFallbackResponse (lines 206-211).              *)
(***************************************************************************)
\* code texts of one to MaxCodeLen words
GenCodes == UNION {[1..n -> Words] : n \in 1..MaxCodeLen}

GenLanguages == {"python", "javascript"}

\* "12" and "15" select the two simpler registers; any other level, and the
\* 'cs1' that replaces a missing one, selects the third
GenLevels == {"", "12", "15", "cs1", "pro"}

GenBodies ==
    {Body(TRUE, "s1", <<"Demo">>, l, c, r) : l \in GenLanguages, c \in GenCodes, r \in GenLevels}

InitGen ==
    /\ openaiKey = "sk-key"
    /\ \E b \in GenBodies :
          /\ req = [p \in {1} |-> Request("POST", "Bearer token-u1", b)]
          /\ snippets = UpdatePending(InitSnippets, "s1", "u1", b.title, b.language, b.code)
    /\ quizzes = InitQuizzes
    /\ nextSnippet = 1
    /\ nextQuizId = 7
    /\ pc = [p \in {1} |-> "llm"]
    /\ served = [p \in {1} |-> 1]
    /\ userId = [p \in {1} |-> "u1"]
    /\ snippetId = [p \in {1} |-> "s1"]
    /\ llmResponse = [p \in {1} |-> NullValue]
    /\ updatedSnippet = [p \in {1} |-> NoSnippet]
    /\ resp = [p \in {1} |-> NoResponse]
    /\ ops = [p \in {1} |-> << <<"auth.getUser", "ok", "ok">>,
                               <<"snippets.update pending", "ok", "ok">> >>]
    /\ before = [p \in {1} |-> [snippets |-> InitSnippets, quizzes |-> InitQuizzes]]

GenFallback(p) == \E f \in FetchResults : ModelCallThrows(f) /\ GenerateWith(p, f)

GenReadBody(p) == \E f \in FetchResults : ModelCallThrows(f) /\ ReadBodyWith(p, f)

NextGen ==
    \/ \E p \in Instances : GenFallback(p)
    \/ \E p \in Instances : GenReadBody(p)

SpecGen == InitGen /\ [][NextGen]_vars

(***************************************************************************)
(* Reading the log of a request.                                           *)
(***************************************************************************)
Called(p, call) == \E k \in 1..Len(ops[p]) : ops[p][k][1] = call

\* how the collaborator ended the call ("none": the call was not made)
Ended(p, call) ==
    IF Called(p, call)
    THEN ops[p][CHOOSE k \in 1..Len(ops[p]) : ops[p][k][1] = call][2]
    ELSE "none"

\* what the handler got from the call ("none": the call was not made)
Got(p, call) ==
    IF Called(p, call)
    THEN ops[p][CHOOSE k \in 1..Len(ops[p]) : ops[p][k][1] = call][3]
    ELSE "none"

Done(p) == pc[p] = "done"

StoreWrites ==
    {"snippets.update pending", "snippets.insert pending", "snippets.update result",
     "quizzes.delete", "quizzes.insert"}

ModelCalls == {"fetch", "generateFallbackResponse"}

\* the request is a POST whose caller was resolved and whose body has code and language
PastGate(p) ==
    /\ req[p].method = "POST"
    /\ Got(p, "auth.getUser") = "ok"
    /\ pc[p] # "body"
    /\ req[p].body.parsable
    /\ req[p].body.code # <<>>
    /\ req[p].body.language # ""

\* how the pending write of the request ended for the handler
PendingGot(p) ==
    IF Called(p, "snippets.update pending")
    THEN Got(p, "snippets.update pending")
    ELSE Got(p, "snippets.insert pending")

\* callLLM has returned to the handler
Generated(p) == PendingGot(p) = "ok" /\ pc[p] \notin {"llm", "json"}

QuizzesOf(qs, id) == {q \in qs : q.snippet_id = id}

QuizIds(qs) == [k \in 1..Len(qs) |-> qs[k].id]

\* the bundle generateFallbackResponse gives on the request's own inputs
HeuristicBundleOf(p) ==
    generateFallbackResponse(req[p].body.code, req[p].body.language,
                             OrElse(req[p].body.reading_level, "cs1"))

(***************************************************************************)
(* Two requests that differ in their snippet identifier only.  Instance 1  *)
(* serves a request; when it has answered, instance 2 receives the same    *)
(* request with another snippet identifier, and every collaborator call    *)
(* that instance 1 also made ends for instance 2 as it ended for           *)
(* instance 1.                                                             *)
(***************************************************************************)
InitTwin == InitFor({1, 2})

\* how the pending write of the request ended
PendingEnded(p) ==
    IF Called(p, "snippets.update pending")
    THEN Ended(p, "snippets.update pending")
    ELSE Ended(p, "snippets.insert pending")

AsFirst(call, outcome) == Called(1, call) => outcome = Ended(1, call)

TwinStart ==
    /\ Done(1) /\ pc[2] = "idle"
    /\ req[1].method = "POST"
    /\ \E id \in RequestSnippetIds \ {req[1].body.snippet_id} :
        Receive(2, [req[1] EXCEPT !.body.snippet_id = id])

TwinAuthenticate ==
    \E raised \in BOOLEAN :
        /\ Called(1, "auth.getUser") => (raised <=> Ended(1, "auth.getUser") = "raise")
        /\ AuthenticateWith(2, raised)

TwinParseBody == ParseBody(2)

TwinPendingWrite ==
    \E outcome \in PendingOutcomes(2) :
        /\ PendingEnded(1) \in PendingOutcomes(2) => outcome = PendingEnded(1)
        /\ PendingWriteWith(2, outcome)

TwinGenerate ==
    \E f \in FetchResults :
        /\ GenerateWith(2, f)
        /\ Generated(1) =>
              /\ AsFirst("fetch", FetchMode(f))
              /\ pc'[2] # "json" => llmResponse'[2] = llmResponse[1]

TwinReadBody ==
    \E f \in FetchResults :
        /\ ReadBodyWith(2, f)
        /\ Generated(1) => llmResponse'[2] = llmResponse[1] /\ AsFirst("fetch", FetchMode(f))

TwinResultWrite ==
    \E outcome \in StoreOutcomes :
        /\ AsFirst("snippets.update result", outcome)
        /\ ResultWriteWith(2, outcome)

TwinQuizDelete ==
    \E outcome \in StoreOutcomes :
        /\ AsFirst("quizzes.delete", outcome)
        /\ QuizDeleteWith(2, outcome)

TwinQuizInsert ==
    \E outcome \in StoreOutcomes :
        /\ AsFirst("quizzes.insert", outcome)
        /\ QuizInsertWith(2, outcome)

NextTwin ==
    \/ Start(1)
    \/ Authenticate(1)
    \/ ParseBody(1)
    \/ PendingWrite(1)
    \/ Generate(1)
    \/ ReadBody(1)
    \/ ResultWrite(1)
    \/ QuizDelete(1)
    \/ QuizInsert(1)
    \/ TwinStart
    \/ TwinAuthenticate
    \/ TwinParseBody
    \/ TwinPendingWrite
    \/ TwinGenerate
    \/ TwinReadBody
    \/ TwinResultWrite
    \/ TwinQuizDelete
    \/ TwinQuizInsert

SpecTwin == InitTwin /\ [][NextTwin]_vars

(***************************************************************************)
(* Two requests for the same snippet served concurrently: two handler      *)
(* instances each receive a request of caller u1 for the snippet s1, their *)
(* steps interleave at the awaits, and every store call succeeds.          *)
(***************************************************************************)
InitConc == InitFor({1, 2})

ConcRequests ==
    {Request("POST", "Bearer token-u1", Body(TRUE, "s1", <<"Demo">>, "python", c, r)) :
        c \in Codes \ {<<>>}, r \in RequestLevels}

ConcStart(p) ==
    /\ pc[p] \in {"idle", "done"}
    /\ served[p] < MaxRequests
    /\ \E r \in ConcRequests : Receive(p, r)

ConcAuthenticate(p) == AuthenticateWith(p, FALSE)

ConcPendingWrite(p) == PendingWriteWith(p, "ok")

ConcResultWrite(p) == ResultWriteWith(p, "ok")

ConcQuizDelete(p) == QuizDeleteWith(p, "ok")

ConcQuizInsert(p) == QuizInsertWith(p, "ok")

NextConc ==
    \/ \E p \in Instances : ConcStart(p)
    \/ \E p \in Instances : ConcAuthenticate(p)
    \/ \E p \in Instances : ParseBody(p)
    \/ \E p \in Instances : ConcPendingWrite(p)
    \/ \E p \in Instances : Generate(p)
    \/ \E p \in Instances : ReadBody(p)
    \/ \E p \in Instances : ConcResultWrite(p)
    \/ \E p \in Instances : ConcQuizDelete(p)
    \/ \E p \in Instances : ConcQuizInsert(p)

SpecConc == InitConc /\ [][NextConc]_vars

(***************************************************************************)
(* C1.  A request that carries the identifier of a snippet owned by        *)
(* someone else leaves that snippet's row and its quizzes as they were     *)
(* when the request arrived.                                               *)
(***************************************************************************)
ForeignSnippet(p) ==
    /\ PastGate(p)
    /\ req[p].body.snippet_id \in DOMAIN before[p].snippets
    /\ before[p].snippets[req[p].body.snippet_id].owner # UserOfHeader(req[p].authHeader)

C1_ForeignSnippetUntouched ==
    \A p \in Instances :
        ForeignSnippet(p) =>
            LET id == req[p].body.snippet_id
            IN  /\ snippets[id] = before[p].snippets[id]
                /\ QuizzesOf(quizzes, id) = QuizzesOf(before[p].quizzes, id)

(***************************************************************************)
(* C2.  For the same caller, body and collaborator outcomes, and the same  *)
(* tables at arrival, the response to the identifier of someone else's     *)
(* snippet is the response to an identifier that has no row: same status,  *)
(* same snippet fields, same quiz identifiers.                             *)
(***************************************************************************)
SameAnswer(r1, r2) ==
    /\ r1.status = r2.status
    /\ r1.kind = r2.kind
    /\ DOMAIN r1.snippet = DOMAIN r2.snippet
    /\ \A field \in DOMAIN r1.snippet \ {"id"} : r1.snippet[field] = r2.snippet[field]
    /\ QuizIds(r1.quizzes) = QuizIds(r2.quizzes)

C2_NoExistenceLeak ==
    \A p, q \in Instances :
        /\ Done(p) /\ Done(q)
        /\ PastGate(p) /\ PastGate(q)
        /\ before[p] = before[q]
        /\ req[q] = [req[p] EXCEPT !.body.snippet_id = req[q].body.snippet_id]
        /\ ForeignSnippet(p)
        /\ req[q].body.snippet_id # ""
        /\ req[q].body.snippet_id \notin DOMAIN before[q].snippets
        => SameAnswer(resp[p], resp[q])

(***************************************************************************)
(* C3.  As claimed: every request past the gate is answered 200 with a     *)
(* snippet and quizzes body.                                               *)
(***************************************************************************)
C3_AlwaysContentAfterGate ==
    \A p \in Instances :
        Done(p) /\ PastGate(p) => resp[p].status = 200 /\ resp[p].kind = "content"

(***************************************************************************)
(* C3, amended.  A request past the gate is answered 500 with an error     *)
(* body exactly when its pending write returned a store error (or, for     *)
(* the insert, no row); in every other case, whatever the store and the    *)
(* model do afterwards, it is answered 200 with a snippet and quizzes      *)
(* body.                                                                   *)
(***************************************************************************)
C3_ContentUnlessPendingWriteError ==
    \A p \in Instances :
        Done(p) /\ PastGate(p) =>
            IF PendingGot(p) \in {"error", "empty"}
            THEN resp[p].status = 500 /\ resp[p].kind = "error"
            ELSE resp[p].status = 200 /\ resp[p].kind = "content"

\* a request past the gate, answered after the store raised or returned an
\* error on a write that follows the pending write
C3_Witness ==
    \E p \in Instances :
        /\ Done(p) /\ PastGate(p) /\ PendingGot(p) = "ok"
        /\ \/ Got(p, "snippets.update result") \in {"error", "raise"}
           \/ Got(p, "quizzes.insert") \in {"error", "raise"}
        /\ resp[p].status = 200

(***************************************************************************)
(* C4.  With a key configured, every model-side failure (fetch raises, a   *)
(* non-success status, a body or content that does not parse, a JSON       *)
(* value that has not the bundle shape) makes callLLM return the bundle    *)
(* of generateFallbackResponse on the same inputs.                         *)
(***************************************************************************)
ModelFailureModes ==
    {"network exception", "http error", "malformed body", "invalid json",
     "json of another shape"}

C4_EveryModelFailureFallsBack ==
    \A p \in Instances :
        Generated(p) /\ Ended(p, "fetch") \in ModelFailureModes =>
            llmResponse[p] = HeuristicBundleOf(p)

(***************************************************************************)
(* C5.  When the result write succeeded and the quiz step failed (the      *)
(* insert returned an error, or the delete or the insert raised), the      *)
(* response has the updated row and one quiz per bundle quiz, identified   *)
(* temp_<index>.                                                           *)
(***************************************************************************)
QuizStepFailed(p) ==
    /\ Got(p, "snippets.update result") = "ok"
    /\ \/ Got(p, "quizzes.delete") = "raise"
       \/ Got(p, "quizzes.insert") \in {"error", "raise"}

C5_QuizStepFailureKeepsQuizzes ==
    \A p \in Instances :
        Done(p) /\ QuizStepFailed(p) =>
            /\ resp[p].snippet = updatedSnippet[p]
            /\ Len(resp[p].quizzes) = Len(llmResponse[p].quizzes)
            /\ \A k \in 1..Len(resp[p].quizzes) : resp[p].quizzes[k].id = <<"temp", k - 1>>

(***************************************************************************)
(* C6.  When the result write failed (error returned or exception raised), *)
(* the response is written from the bundle and the snippet identifier and  *)
(* its quiz identifiers are temp_0, temp_1, temp_2.                        *)
(***************************************************************************)
ResultWriteFailed(p) == Got(p, "snippets.update result") \in {"error", "raise"}

C6_ResultWriteFailureGivesTempIds ==
    \A p \in Instances :
        Done(p) /\ ResultWriteFailed(p) =>
            /\ resp[p].snippet = SyntheticSnippet(snippetId[p], llmResponse[p])
            /\ QuizIds(resp[p].quizzes) = << <<"temp", 0>>, <<"temp", 1>>, <<"temp", 2>> >>

(***************************************************************************)
(* C7.  When the result write and the quiz insert both succeeded, the      *)
(* response has the row the result write returned and exactly the rows     *)
(* the quiz insert stored, with the identifiers the store assigned.        *)
(***************************************************************************)
BothWritesSucceeded(p) ==
    Got(p, "snippets.update result") = "ok" /\ Got(p, "quizzes.insert") = "ok"

C7_SuccessReturnsStoredRows ==
    \A p \in Instances :
        Done(p) /\ BothWritesSucceeded(p) =>
            /\ resp[p].status = 200 /\ resp[p].kind = "content"
            /\ resp[p].snippet = snippets[snippetId[p]]
            /\ resp[p].snippet.status = "ready"
            /\ Len(resp[p].quizzes) = Len(llmResponse[p].quizzes)
            /\ \A k \in 1..Len(resp[p].quizzes) :
                /\ resp[p].quizzes[k] \in QuizzesOf(quizzes, snippetId[p])
                /\ resp[p].quizzes[k].id[1] = "db"
                /\ resp[p].quizzes[k].question = llmResponse[p].quizzes[k].question
            /\ \A j, k \in 1..Len(resp[p].quizzes) :
                j # k => resp[p].quizzes[j].id # resp[p].quizzes[k].id

C7_Witness ==
    \E p \in Instances :
        /\ Done(p) /\ BothWritesSucceeded(p)
        /\ Len(resp[p].quizzes) = 3

(***************************************************************************)
(* C8.  After a request whose quiz insert succeeded, the quizzes stored    *)
(* for the snippet are exactly the rows of that insert, however the        *)
(* delete before it ended.                                                 *)
(***************************************************************************)
C8_InsertReplacesAllQuizzes ==
    \A p \in Instances :
        Done(p) /\ Got(p, "quizzes.insert") = "ok" =>
            QuizzesOf(quizzes, snippetId[p]) = Range(resp[p].quizzes)

(***************************************************************************)
(* C9.  A POST without Authorization header, or whose token the auth       *)
(* collaborator rejects, is answered 401; one whose caller is resolved     *)
(* and whose body lacks code or language is answered 400.  None of them    *)
(* writes to the store or calls the model.                                 *)
(***************************************************************************)
Unauthorized(p) ==
    /\ req[p].method = "POST"
    /\ \/ req[p].authHeader = ""
       \/ Got(p, "auth.getUser") = "error"

Invalid(p) ==
    /\ req[p].method = "POST"
    /\ Got(p, "auth.getUser") = "ok"
    /\ pc[p] # "body"
    /\ req[p].body.parsable
    /\ req[p].body.code = <<>> \/ req[p].body.language = ""

C9_RejectedBeforeContentWork ==
    \A p \in Instances :
        /\ Unauthorized(p) =>
            /\ Done(p) /\ resp[p].status = 401 /\ resp[p].kind = "error"
            /\ resp[p].error = IF req[p].authHeader = ""
                               THEN "Missing authorization header" ELSE "Invalid token"
        /\ Invalid(p) =>
            /\ Done(p) /\ resp[p].status = 400 /\ resp[p].kind = "error"
            /\ resp[p].error = "Missing required fields: code, language"
        /\ Unauthorized(p) \/ Invalid(p) =>
            /\ \A c \in StoreWrites \cup ModelCalls : ~Called(p, c)
            /\ snippets = before[p].snippets
            /\ quizzes = before[p].quizzes

\* an authenticated request without language, answered 400
C9_Witness ==
    \E p \in Instances :
        /\ Invalid(p) /\ req[p].body.code # <<>>
        /\ Done(p) /\ resp[p].status = 400

(***************************************************************************)
(* C10.  Without a configured key callLLM returns the mock bundle, sends   *)
(* no request and does not call generateFallbackResponse, also for code    *)
(* with loop keywords; the mock bundle is not the heuristic one.           *)
(***************************************************************************)
C10_UnconfiguredReturnsMock ==
    \A p \in Instances :
        Generated(p) /\ openaiKey = "" =>
            /\ llmResponse[p] = MockBundle(req[p].body.language)
            /\ llmResponse[p] # HeuristicBundleOf(p)
            /\ \A c \in ModelCalls : ~Called(p, c)

C10_Witness ==
    \E p \in Instances :
        /\ Generated(p) /\ openaiKey = ""
        /\ hasLoopsOf(req[p].body.code)
        /\ req[p].body.reading_level = "12"

(***************************************************************************)
(* C11.  Every request that was received is eventually answered, whatever  *)
(* the auth collaborator, the store and the model service return or        *)
(* raise; it is answered once, nothing is answered before the handler      *)
(* returns, and the answer to a request other than OPTIONS has a JSON      *)
(* body.  A raise inside the recovery of a failed result write ends in     *)
(* the top-level fallback response.                                        *)
(***************************************************************************)
Answered(p) == Done(p) /\ resp[p].kind \in {"empty", "error", "content"}

C11_EveryRequestAnsweredOnce ==
    /\ (pc[1] \notin {"idle", "done"}) ~> Answered(1)
    /\ [](\A p \in Instances :
            /\ Done(p) => Answered(p)
            /\ ~Done(p) => resp[p] = NoResponse
            /\ Done(p) /\ req[p].method # "OPTIONS" => resp[p].kind \in {"error", "content"})
    /\ [][\A p \in Instances :
            Done(p) /\ served'[p] = served[p] => resp'[p] = resp[p] /\ pc'[p] = "done"]_vars

\* the result write failed, mapping the quizzes raised in the recovery, and
\* the request was answered by the top-level fallback
C11_Witness ==
    \E p \in Instances :
        /\ Done(p) /\ ResultWriteFailed(p) /\ QuizzesMapThrows(llmResponse[p])
        /\ resp[p].kind = "content" /\ resp[p].snippet.id = "fallback"

(***************************************************************************)
(* C12.  Whatever the signals of the code and whatever the reading level,  *)
(* the bundle of generateFallbackResponse has exactly 3 quizzes, the       *)
(* answer of each quiz is one of its choices, and the choices and the      *)
(* answer of the second quiz are those of loops when the code has loops,   *)
(* otherwise those of conditionals when it has conditionals, otherwise     *)
(* those of sequential processing.                                         *)
(***************************************************************************)
FellBack(p) == Called(p, "generateFallbackResponse")

SecondQuizTopic(code) ==
    IF hasLoopsOf(code) THEN "loops"
    ELSE IF hasConditionalsOf(code) THEN "conditionals"
    ELSE "neither"

SecondQuizChoices(topic) ==
    CASE topic = "loops" ->
           <<"Loops for repetition", "Database operations", "Network requests", "Graphics rendering">>
      [] topic = "conditionals" ->
           <<"Conditional logic", "File handling", "Memory management", "Thread synchronization">>
      [] topic = "neither" ->
           <<"Sequential processing", "Parallel computing", "Distributed systems", "Machine learning">>

C12_ThreeQuizzesAnswerAmongChoices ==
    \A p \in Instances :
        FellBack(p) =>
            LET qs == llmResponse[p].quizzes
                topic == SecondQuizTopic(req[p].body.code)
            IN  /\ Len(qs) = 3
                /\ \A k \in 1..Len(qs) : qs[k].answer \in Range(qs[k].choices)
                /\ qs[2].choices = SecondQuizChoices(topic)
                /\ qs[2].answer = SecondQuizChoices(topic)[1]

\* the generator ran on a technical-level code with loops, conditionals and
\* a function
C12_Witness ==
    \E p \in Instances :
        /\ FellBack(p)
        /\ hasLoopsOf(req[p].body.code) /\ hasConditionalsOf(req[p].body.code)
        /\ hasFunctionsOf(req[p].body.code)
        /\ req[p].body.reading_level = "pro"
        /\ llmResponse[p].quizzes[2].answer = "Loops for repetition"

(***************************************************************************)
(* C13.  The diagram of generateFallbackResponse is determined by the pair *)
(* (hasLoops, hasConditionals): the loop-with-branch template when both    *)
(* hold, the loop template for loops alone, the branch template for        *)
(* conditionals alone, the straight-line template for neither; language,   *)
(* reading level and hasFunctions have no part in it.                      *)
(***************************************************************************)
DiagramTemplate(pair) ==
    CASE pair = <<TRUE, TRUE>> ->
           "graph TD A[Start] --> B[Initialize Variables] B --> C[Loop Condition] C -->|True| D{Check Condition} D -->|Met| E[Execute Action A] D -->|Not Met| F[Execute Action B] E --> G[Update Variables] F --> G G --> C C -->|False| H[End]"
      [] pair = <<TRUE, FALSE>> ->
           "graph TD A[Start] --> B[Initialize Counter] B --> C[Check Loop Condition] C -->|True| D[Execute Loop Body] D --> E[Update Counter] E --> C C -->|False| F[End]"
      [] pair = <<FALSE, TRUE>> ->
           "graph TD A[Start] --> B[Check Condition] B -->|True| C[Execute Branch A] B -->|False| D[Execute Branch B] C --> E[End] D --> E"
      [] pair = <<FALSE, FALSE>> ->
           "graph TD A[Start] --> B[Process Input] B --> C[Apply Logic] C --> D[Generate Output] D --> E[End]"

C13_DiagramByLoopsAndConditionals ==
    \A p \in Instances :
        FellBack(p) =>
            llmResponse[p].mermaid =
                DiagramTemplate(<<hasLoopsOf(req[p].body.code),
                                  hasConditionalsOf(req[p].body.code)>>)

\* the generator ran on a child-level code with loops, conditionals and a
\* function and drew the loop-with-branch template
C13_Witness ==
    \E p \in Instances :
        /\ FellBack(p)
        /\ hasLoopsOf(req[p].body.code) /\ hasConditionalsOf(req[p].body.code)
        /\ hasFunctionsOf(req[p].body.code)
        /\ req[p].body.reading_level = "12"
        /\ llmResponse[p].mermaid = DiagramTemplate(<<TRUE, TRUE>>)

(***************************************************************************)
(* C14.  The explanation of generateFallbackResponse is the base sentence  *)
(* of the register, followed by the loops clause iff hasLoops, then the    *)
(* conditionals clause iff hasConditionals, then the functions clause.     *)
(* As claimed, the functions clause is added iff hasFunctions and the      *)
(* register is the technical one.  As the code has it, the functions       *)
(* clause is added iff hasFunctions and the reading level is not 12: the   *)
(* teen register (level 15) has a functions clause of its own.             *)
(***************************************************************************)
Register(readingLevel) ==
    IF readingLevel = "12" THEN "child"
    ELSE IF readingLevel = "15" THEN "teen"
    ELSE "technical"

\* the sentences of a register; "" where the register has no such clause
Sentences(register) ==
    CASE register = "child" ->
           [base |-> " code is like following a recipe! It takes some information (ingredients) and follows step-by-step instructions to create a result. The computer reads each line and does what it says, just like you would follow cooking instructions.",
            loops |-> " Some steps say 'repeat this part until something happens' - that's like stirring until the mixture is smooth.",
            conditionals |-> " Other steps say 'if this, then do that' - like checking if the cake is done before taking it out.",
            functions |-> ""]
      [] register = "teen" ->
           [base |-> " code demonstrates fundamental programming concepts. It processes input data through a series of logical operations to produce a desired output.",
            loops |-> " It uses loops to repeat certain operations efficiently.",
            conditionals |-> " Conditional statements help the program make decisions based on different scenarios.",
            functions |-> " Functions help organize the code into reusable blocks."]
      [] register = "technical" ->
           [base |-> " code implements a computational algorithm using standard programming constructs. The implementation follows best practices for readability and maintainability.",
            loops |-> " Iterative constructs handle repetitive operations with appropriate termination conditions.",
            conditionals |-> " Conditional logic enables branching behavior based on runtime evaluation.",
            functions |-> " Modular function design promotes code reusability and separation of concerns."]

Clause(present, sentence) == IF present THEN <<sentence>> ELSE <<>>

ExplanationWith(p, functionsClause) ==
    LET body == req[p].body
        t == Sentences(Register(OrElse(body.reading_level, "cs1")))
    IN  <<"This ", body.language, t.base>>
        \o Clause(hasLoopsOf(body.code), t.loops)
        \o Clause(hasConditionalsOf(body.code), t.conditionals)
        \o Clause(functionsClause, t.functions)

\* the claim as stated
C14_FunctionsClauseOnlyTechnical ==
    \A p \in Instances :
        FellBack(p) =>
            llmResponse[p].explanation =
                ExplanationWith(p, /\ hasFunctionsOf(req[p].body.code)
                                   /\ req[p].body.reading_level \notin {"12", "15"})

\* the claim as amended
C14_FunctionsClauseUnlessChild ==
    \A p \in Instances :
        FellBack(p) =>
            llmResponse[p].explanation =
                ExplanationWith(p, /\ hasFunctionsOf(req[p].body.code)
                                   /\ req[p].body.reading_level # "12")

\* the generator ran at level 15 on a code with a loop, a conditional and a
\* function, and the three teen clauses follow the base sentence in order
C14_Witness ==
    \E p \in Instances :
        /\ FellBack(p)
        /\ req[p].body.reading_level = "15"
        /\ hasLoopsOf(req[p].body.code) /\ hasConditionalsOf(req[p].body.code)
        /\ hasFunctionsOf(req[p].body.code)
        /\ Len(llmResponse[p].explanation) = 6
        /\ llmResponse[p].explanation[6] = Sentences("teen").functions

(***************************************************************************)
(* C15.  When the result write of a request failed, by an error returned   *)
(* (also the error of .single() on no row) or by an exception, the request *)
(* is answered without the quiz delete and without the quiz insert, and    *)
(* the table quizzes is as it was when the request arrived.                *)
(***************************************************************************)
C15_NoQuizStepAfterFailedResultWrite ==
    \A p \in Instances :
        ResultWriteFailed(p) =>
            /\ Done(p)
            /\ ~Called(p, "quizzes.delete")
            /\ ~Called(p, "quizzes.insert")
            /\ quizzes = before[p].quizzes

\* the result write of a request on the caller's own snippet returned an
\* error, and the request was answered from the bundle
C15_Witness ==
    \E p \in Instances :
        /\ Done(p) /\ Ended(p, "snippets.update result") = "error"
        /\ snippetId[p] = "s1" /\ userId[p] = "u1"
        /\ resp[p].kind = "content" /\ resp[p].snippet.id = "s1"
        /\ QuizzesOf(quizzes, "s1") # {}

(***************************************************************************)
(* C16.  When the pending write returns an error (the update of the        *)
(* supplied snippet, or the insert of a new one, which also fails when it  *)
(* returns no row), the request is answered with an error response, and    *)
(* neither the model generator nor the result write, the quiz delete or    *)
(* the quiz insert is called.                                              *)
(***************************************************************************)
PendingWriteRefused(p) == PendingGot(p) \in {"error", "empty"}

C16_PendingWriteErrorIsFatal ==
    \A p \in Instances :
        PendingWriteRefused(p) =>
            /\ Done(p)
            /\ resp[p].kind = "error" /\ resp[p].status = 500
            /\ resp[p].error = IF Called(p, "snippets.update pending")
                               THEN "Failed to update snippet"
                               ELSE "Failed to create snippet"
            /\ \A call \in ModelCalls : ~Called(p, call)
            /\ \A call \in {"snippets.update result", "quizzes.delete", "quizzes.insert"} :
                  ~Called(p, call)
            /\ snippets = before[p].snippets /\ quizzes = before[p].quizzes

\* the insert of a new snippet returned an error and the request was
\* answered 500
C16_Witness ==
    \E p \in Instances :
        /\ Done(p) /\ Got(p, "snippets.insert pending") = "error"
        /\ resp[p].status = 500 /\ Len(ops[p]) = 2

(***************************************************************************)
(* C17.  The calls of one request are made one after the other in the      *)
(* order pending write, model call, result write, quiz delete, quiz        *)
(* insert, each at most once; a call is made only when the one before it   *)
(* has ended; the row is written ready only after callLLM has given a      *)
(* value, and until then the caller's row is pending.                      *)
(***************************************************************************)
Rank(call) ==
    CASE call = "auth.getUser" -> 0
      [] call \in {"snippets.update pending", "snippets.insert pending"} -> 1
      [] call = "fetch" -> 2
      [] call = "generateFallbackResponse" -> 3
      [] call = "snippets.update result" -> 4
      [] call = "quizzes.delete" -> 5
      [] call = "quizzes.insert" -> 6

\* the call the instance is suspended at has not ended
AwaitedCalls(p) ==
    CASE pc[p] = "auth" -> {"auth.getUser"}
      [] pc[p] = "body" -> {"snippets.update pending", "snippets.insert pending"}
      [] pc[p] = "pending" -> {"snippets.update pending", "snippets.insert pending"}
      [] pc[p] \in {"llm", "json"} -> {"fetch", "generateFallbackResponse"}
      [] pc[p] = "result" -> {"snippets.update result"}
      [] pc[p] = "qdelete" -> {"quizzes.delete"}
      [] pc[p] = "qinsert" -> {"quizzes.insert"}
      [] OTHER -> {}

C17_OneSequentialChain ==
    \A p \in Instances :
        /\ \A i, j \in 1..Len(ops[p]) : i < j => Rank(ops[p][i][1]) < Rank(ops[p][j][1])
        /\ \A call \in AwaitedCalls(p) :
              /\ ~Called(p, call)
              /\ \A k \in 1..Len(ops[p]) : Rank(ops[p][k][1]) < Rank(call)
        /\ Called(p, "fetch") => PendingGot(p) = "ok"
        /\ Called(p, "snippets.update result") =>
              Generated(p) /\ ~PropertyReadThrows(llmResponse[p])
        /\ Called(p, "quizzes.delete") => Got(p, "snippets.update result") = "ok"
        /\ Called(p, "quizzes.insert") => Got(p, "quizzes.delete") = "unread"
        /\ \A i \in DOMAIN snippets :
              pc[p] \in {"llm", "json", "result"} /\ i = snippetId[p] /\ snippets[i].owner = userId[p] =>
                  snippets[i].status = "pending"

\* a request made all the calls of the chain: the model call failed, the
\* heuristic generator ran, and the writes went through
C17_Witness ==
    \E p \in Instances :
        /\ Done(p)
        /\ [k \in 1..Len(ops[p]) |-> ops[p][k][1]] =
              <<"auth.getUser", "snippets.insert pending", "fetch",
                "generateFallbackResponse", "snippets.update result",
                "quizzes.delete", "quizzes.insert">>
        /\ snippets[snippetId[p]].status = "ready"

(***************************************************************************)
(* C18.  When two requests for the same snippet ran concurrently and all   *)
(* their store calls succeeded, then once both are answered the quizzes    *)
(* stored for the snippet are exactly the quizzes one of the two requests  *)
(* inserted, and the explanation, diagram and trace of the row are those   *)
(* of one of the two requests.                                             *)
(***************************************************************************)
C18_LastWriteWins ==
    (\A p \in Instances : Done(p) /\ BothWritesSucceeded(p)) =>
        /\ \E p \in Instances : QuizzesOf(quizzes, "s1") = Range(resp[p].quizzes)
        /\ \E p \in Instances :
              /\ snippets["s1"].explanation = llmResponse[p].explanation
              /\ snippets["s1"].mermaid_diagram = llmResponse[p].mermaid
              /\ snippets["s1"].trace_table = llmResponse[p].trace

(***************************************************************************)
(* C19.  A response written by the top-level catch has the snippet id      *)
(* 'fallback' and the quiz ids fallback_<index>; when the exception was    *)
(* raised after the body was parsed, its content is the bundle that        *)
(* generateFallbackResponse gives on the code, language and reading level  *)
(* of the request, and otherwise the bundle it gives on the placeholders.  *)
(***************************************************************************)
AnsweredByTopLevelCatch(p) ==
    Done(p) /\ resp[p].kind = "content" /\ resp[p].snippet.id = "fallback"

BodyParsed(p) == Got(p, "auth.getUser") = "ok" /\ req[p].body.parsable

PlaceholderBundle == generateFallbackResponse(<<"Sample", "code">>, "javascript", "cs1")

C19_FallbackFromRequestInputs ==
    \A p \in Instances :
        AnsweredByTopLevelCatch(p) =>
            LET b == IF BodyParsed(p) THEN HeuristicBundleOf(p) ELSE PlaceholderBundle
            IN  /\ resp[p].snippet = SyntheticSnippet("fallback", b)
                /\ resp[p].quizzes = SyntheticQuizzes("fallback", "fallback", b.quizzes)

(***************************************************************************)
(* C20.  A response with status 200 and explanation content is given only  *)
(* to a request whose caller was resolved and whose body was parsed and    *)
(* has code and language; an exception raised before that never ends in    *)
(* such a response.                                                        *)
(***************************************************************************)
C20_ContentOnlyPastGate ==
    \A p \in Instances :
        Done(p) /\ resp[p].status = 200 /\ resp[p].kind = "content" => PastGate(p)

====
